---- MODULE Spec2Model ----
(***************************************************************************)
(* The deferred-data protocol of examples/data-router/src/App.tsx:         *)
(* the loaders deferredLoader and deferredChildLoader build a bundle of    *)
(* critical values (awaited) and lazy promises (handed over pending), and  *)
(* the pages DeferredPage and DeferredChild render it, one <Deferred>      *)
(* element per lazy field.                                                 *)
(*                                                                         *)
(* The model follows one navigation to one of the deferred routes: the     *)
(* loaders of the matched routes run, the pages are rendered once all of   *)
(* them have returned, the lazy promises settle in any order, and the pages  *)
(* may be discarded (unmounted) at any moment.  Timer delays are not       *)
(* modelled: any order of timer expiry is allowed.  A critical computation *)
(* is an external asynchronous computation and may reject as well as       *)
(* resolve; the lazy computations settle the way their executors settle.   *)
(*                                                                         *)
(* The todos routes are a second specification, TodosSpec: forms are       *)
(* posted to todosAction by a navigation or by the fetcher of a TodoItem,  *)
(* todoLoader runs for /todos/:id, and the todos route renders TodosList   *)
(* or TodosBoundary.  The router may finish a navigation and a fetcher in  *)
(* any order; the store is a map from id to text.                          *)
(***************************************************************************)
EXTENDS Naturals, FiniteSets, Sequences, TLC

----------------------------------------------------------------------------
(* Route table and loaders *)

Loaders == {"deferredLoader", "deferredChildLoader"}

Routes == {"/deferred", "/deferred/child"}

\* The loaders of the routes a location matches: "child" is nested in "deferred".
Matched(r) == IF r = "/deferred" THEN {"deferredLoader"} ELSE Loaders

\* deferredLoader as if it awaited lazyError1 as well.
CriticalFieldsAwaitLazy(l) ==
    IF l = "deferredLoader"
    THEN <<"critical1", "critical2", "lazyError1">>
    ELSE <<"critical">>

\* The awaited fields of a loader, in the order the object literal evaluates them.
CriticalFields(l) ==
    IF l = "deferredLoader" THEN <<"critical1", "critical2">> ELSE <<"critical">>

\* The fields a loader hands to deferred() as promises, not awaited.
LazyFields(l) ==
    IF l = "deferredLoader"
    THEN {"lazyResolved", "lazy1", "lazy2", "lazy3", "lazyError1", "lazyError2"}
    ELSE {"lazy"}

Range(s) == {s[i] : i \in 1..Len(s)}

CriticalSet(l) == Range(CriticalFields(l))

FieldsOf(l) == CriticalSet(l) \cup LazyFields(l)

Fields == UNION {FieldsOf(l) : l \in Loaders}

AllLazy == UNION {LazyFields(l) : l \in Loaders}

AllCritical == UNION {CriticalSet(l) : l \in Loaders}

LoaderOf(f) == CHOOSE l \in Loaders : f \in FieldsOf(l)

\* lazyResolved as if it were made by a timer like its siblings.
ImmediateNone(f) == FALSE

\* Promise.resolve(v): the promise is already fulfilled when it is created.
Immediate(f) == f = "lazyResolved"

\* What a computation settles with: r(v) fulfils, the second executor
\* argument rejects.  The critical timers of the example only fulfil; as
\* external computations they may reject as well, which is what the awaits
\* of the loader have to cope with.
Outcomes(f) ==
    IF f \in {"lazyError1", "lazyError2"} THEN {"reject"}
    ELSE IF f \in {"critical1", "critical2", "critical"} THEN {"resolve", "reject"}
    ELSE {"resolve"}

\* The value a computation resolves with.
ValueOf(f) ==
    CASE f = "critical1"    -> "Critical Data 1"
      [] f = "critical2"    -> "Critical Data 2"
      [] f = "lazyResolved" -> "Lazy Data immediately resolved"
      [] f = "lazy1"        -> "Lazy Data 1"
      [] f = "lazy2"        -> "Lazy Data 2"
      [] f = "lazy3"        -> "Lazy Data 3"
      [] f = "critical"     -> "Critical Child Data"
      [] f = "lazy"         -> "Lazy Child Data"
      [] OTHER              -> "undefined"

\* The reason a computation rejects with.
ReasonOf(f) ==
    IF f \in {"lazyError1", "lazyError2"} THEN "Kaboom!" ELSE "rejected " \o f

NoValue == ""

Settlement(f, o) ==
    IF o = "resolve"
    THEN [status |-> "settled", value |-> ValueOf(f)]
    ELSE [status |-> "failed", value |-> ReasonOf(f)]

Unstarted == [status |-> "unstarted", value |-> NoValue]

Pending == [status |-> "pending", value |-> NoValue]

\* new Promise(executor) / Promise.resolve(v)
NewPromise(f) == IF Immediate(f) THEN Settlement(f, "resolve") ELSE Pending

NoBundle == [produced |-> FALSE, critical |-> {}, lazy |-> {}]

----------------------------------------------------------------------------
(* Pages *)

\* DeferredPage as if it did not render critical2.
PageCriticalOmitting(l) ==
    IF l = "deferredLoader" THEN {"critical1"} ELSE {"critical"}

\* <p>{data.criticalN}</p>
PageCritical(l) ==
    IF l = "deferredLoader" THEN {"critical1", "critical2"} ELSE {"critical"}

\* DeferredPage as if it had no <Deferred> element for lazy3.
PageDeferredOmitting(l) ==
    IF l = "deferredLoader"
    THEN {"lazyResolved", "lazy1", "lazy2", "lazyError1", "lazyError2"}
    ELSE {"lazy"}

\* <Deferred data={data.f} ...>
PageDeferred(l) ==
    IF l = "deferredLoader"
    THEN {"lazyResolved", "lazy1", "lazy2", "lazy3", "lazyError1", "lazyError2"}
    ELSE {"lazy"}

\* The lazy2 and lazy3 elements as if they were given data.lazy1.
DataSharedFirst(s) == IF s \in {"lazy2", "lazy3"} THEN "lazy1" ELSE s

\* The lazy2 element as if it were given data.lazy1.
DataMiswired(s) == IF s = "lazy2" THEN "lazy1" ELSE s

\* data={data.f}: the bundle field the element at slot s is given.
Data(s) == s

\* fallback={...}
Fallback(f) ==
    CASE f = "lazyResolved" -> "should not see me!"
      [] f = "lazy1"        -> "loading 1..."
      [] f = "lazy2"        -> "loading 2..."
      [] f = "lazy3"        -> "loading 3..."
      [] f = "lazyError1"   -> "loading (error 1)..."
      [] f = "lazyError2"   -> "loading (error 2)..."
      [] f = "lazy"         -> "loading child..."
      [] OTHER              -> "undefined"

\* The children of the <Deferred> element.
Children(f) == IF f = "lazy3" THEN "function" ELSE "RenderDeferredData"

\* No element with an errorBoundary.
ErrorBoundaryNone(f) == "none"

\* errorBoundary={<RenderDeferredError />}
ErrorBoundary(f) == IF f = "lazyError2" THEN "RenderDeferredError" ELSE "none"

NotShown == [state |-> "NotShown", by |-> "none", text |-> NoValue]

\* RenderDeferredData: the isDeferredError branch, else <p>{data}</p>.
RenderDeferredData(e) ==
    IF e.status = "failed"
    THEN [state |-> "Errored", by |-> "RenderDeferredData.isDeferredError", text |-> e.value]
    ELSE [state |-> "Resolved", by |-> "RenderDeferredData", text |-> e.value]

\* RenderDeferredError: always the error paragraph.
RenderDeferredError(e) ==
    [state |-> "Errored", by |-> "RenderDeferredError", text |-> e.value]

\* ({ data }) => <p>{data}</p>
RenderFunction(e) ==
    [state |-> "Resolved", by |-> "function", text |-> e.value]

RenderChildren(f, e) ==
    IF Children(f) = "function" THEN RenderFunction(e) ELSE RenderDeferredData(e)

\* What one <Deferred> element shows for an entry in state e.
DeferredElement(f, e) ==
    CASE e.status = "pending" ->
            [state |-> "Placeholder", by |-> "fallback", text |-> Fallback(f)]
      [] e.status = "failed" /\ ErrorBoundary(f) # "none" -> RenderDeferredError(e)
      [] OTHER -> RenderChildren(f, e)

\* <p>{data.f}</p>
CriticalElement(v) == [state |-> "Value", by |-> "page", text |-> v]

----------------------------------------------------------------------------
(* Todos: the store, form data, todosAction, todoLoader, the todos routes *)

\* How many todos the store holds at most.
MaxTodos == 1

\* The ids the store gives to todos.
TodoIds == {ToString(i) : i \in 1..MaxTodos}

\* <Link to="/todos/junk">: an id that names no todo.
JunkId == "junk"

\* What the user types into <input name="todo">; the input may be left empty.
Texts == {"", "milk"}

\* A value of FormData.get(name): a string, or null when the field is absent.
Str(x) == [type |-> "string", v |-> x]
Absent == [type |-> "null", v |-> NoValue]

\* typeof v === "string"
IsString(v) == v.type = "string"

\* The submissions the action can be called with.
FormDatas ==
    [action : {Str("add"), Str("delete"), Absent},
     todoId : {Str(id) : id \in TodoIds \cup {JunkId}} \cup {Absent},
     todo   : {Str(t) : t \in Texts} \cup {Absent}]

NoForm == [action |-> Absent, todoId |-> Absent, todo |-> Absent]

\* <Form method="post"> of TodosList: hidden action=add and the todo input.
AddForm(t) == [action |-> Str("add"), todoId |-> Absent, todo |-> Str(t)]

\* <fetcher.Form> of TodoItem: hidden action=delete, button todoId=id.
DeleteForm(id) == [action |-> Str("delete"), todoId |-> Str(id), todo |-> Absent]

\* The ids of the todos in store t.
IdsOf(t) == {p[1] : p \in t}

\* addTodo(todo): the store keeps the todo under an id no todo has.
AddTodo(t, id, text) == t \cup {<<id, text>>}

\* deleteTodo(id)
DeleteTodo(t, id) == {p \in t : p[1] # id}

\* getTodos()[id]: the text, or undefined.
Lookup(t, id) ==
    IF id \in IdsOf(t) THEN Str((CHOOSE p \in t : p[1] = id)[2]) ELSE Absent

\* !v of JavaScript for a string or undefined.
Falsy(v) == ~IsString(v) \/ v.v = NoValue

\* { ok: true }
ActionOk == [kind |-> "data", ok |-> TRUE, status |-> 0, location |-> NoValue]

\* new Response(null, { status: 302, headers: { Location: "/todos" } })
Redirect == [kind |-> "response", ok |-> FALSE, status |-> 302, location |-> "/todos"]

NoResult == [kind |-> "none", ok |-> FALSE, status |-> 0, location |-> NoValue]

StoreCall(fn, arg) == [fn |-> fn, arg |-> arg]

\* todosAction without the return in the delete branch.
TodosActionFallThrough(fd) ==
    [calls |->
        (IF fd.action = Str("delete") /\ IsString(fd.todoId)
         THEN <<StoreCall("deleteTodo", fd.todoId.v)>> ELSE <<>>)
        \o (IF IsString(fd.todo) THEN <<StoreCall("addTodo", fd.todo.v)>> ELSE <<>>),
     result |-> Redirect]

\* todosAction: the calls it makes on the store and what it returns.
TodosAction(fd) ==
    IF fd.action = Str("delete") /\ IsString(fd.todoId)
    THEN [calls |-> <<StoreCall("deleteTodo", fd.todoId.v)>>, result |-> ActionOk]
    ELSE [calls |-> IF IsString(fd.todo)
                    THEN <<StoreCall("addTodo", fd.todo.v)>>
                    ELSE <<>>,
          result |-> Redirect]

\* The store after the calls, where addTodo uses the id fresh.
RECURSIVE ApplyCalls(_, _, _)
ApplyCalls(t, calls, fresh) ==
    IF calls = <<>> THEN t
    ELSE ApplyCalls(IF Head(calls).fn = "addTodo"
                    THEN AddTodo(t, fresh, Head(calls).arg)
                    ELSE DeleteTodo(t, Head(calls).arg),
                    Tail(calls), fresh)

Returned(v) == [threw |-> FALSE, value |-> v, about |-> NoValue]
Threw(message, id) == [threw |-> TRUE, value |-> message, about |-> id]

\* todoLoader returning todos[params.id] without its two checks.
TodoLoaderUnchecked(id, t) == Returned(Lookup(t, id).v)

\* todoLoader: id is params.id (NoValue when the parameter is missing), t is
\* what getTodos() returns.
TodoLoader(id, t) ==
    IF id = NoValue THEN Threw("Expected params.id", NoValue)
    ELSE IF Falsy(Lookup(t, id))
         THEN Threw("Uh oh, I couldn't find a todo with id", id)
         ELSE Returned(Lookup(t, id).v)

\* The errorElement of a route of the table.
ErrorElement(r) == IF r = "todos" THEN "TodosBoundary" ELSE "none"

ParentRoute(r) == IF r = ":id" THEN "todos" ELSE "layout"

\* The route whose errorElement shows an error thrown by the loader of r.
BoundaryRoute(r) ==
    IF ErrorElement(r) # "none" THEN r
    ELSE IF ErrorElement(ParentRoute(r)) # "none" THEN ParentRoute(r)
    ELSE "root"

\* <TodosList> with its <Outlet>: nothing, or <Todo> showing the loader's value.
TodosList(outlet, text) ==
    [element |-> "TodosList", outlet |-> outlet, text |-> text, about |-> NoValue]

\* <TodosBoundary>: the message of useRouteError().
TodosBoundary(r) ==
    [element |-> "TodosBoundary", outlet |-> "none", text |-> r.value, about |-> r.about]

\* What the todos route renders for the location with id parameter id, given
\* the result of todoLoader there.
ViewFor(id, t) ==
    IF id = NoValue THEN TodosList("none", NoValue)
    ELSE IF TodoLoader(id, t).threw
         THEN IF BoundaryRoute(":id") = "todos"
              THEN TodosBoundary(TodoLoader(id, t))
              ELSE [element |-> "root", outlet |-> "none", text |-> NoValue,
                    about |-> NoValue]
         ELSE TodosList("Todo", TodoLoader(id, t).value)

\* useNavigation() when no navigation is in flight.
Idle == [state |-> "idle", submitted |-> FALSE, formData |-> NoForm, id |-> NoValue]

\* The effect of TodosList on [navigation]: the next value of isAdding.
Effect(nav, adding) ==
    IF nav.submitted /\ nav.formData.action = Str("add") THEN TRUE
    ELSE IF nav.state = "idle" THEN FALSE
    ELSE adding

----------------------------------------------------------------------------
VARIABLES
    route,        \* the location navigated to
    pc,           \* per loader: "idle", "awaiting", "returned", "threw"
    awaiting,     \* per loader: index in CriticalFields of the awaited field
    entry,        \* per field: the promise of its computation
    triggers,     \* per field: how many times its computation was started
    bundle,       \* per loader: the value deferred() returned
    thrown,       \* per loader: the error the loader call rejected with
    renderer,     \* "none", "live", "discarded"
    observed,     \* per field: the entry as the page last saw it
    display,      \* per slot (named by its field): what the page shows
    registered,   \* per field: a continuation of the page waits on its entry
    updates,      \* per field: display updates after the first render
    raised,       \* fields whose continuation acted on a discarded page
    late,         \* fields that settled after the page was discarded
    firstSettled, \* the lazy field whose timer settled first, if any has
    todos,        \* the todo store: a set of <<id, text>> pairs
    navigation,   \* useNavigation(): state, formData and target of the navigation
    location,     \* the id parameter of the committed location, if it has one
    fetcher,      \* per todo id: the state of the fetcher of its TodoItem
    isAdding,     \* the state of TodosList
    actionResult, \* what the last call of todosAction returned
    storeCalls,   \* the calls the last call of todosAction made on the store
    view          \* what the todos route renders

vars == <<route, pc, awaiting, entry, triggers, bundle, thrown, renderer,
          observed, display, registered, updates, raised, late, firstSettled,
          todos, navigation, location, fetcher, isAdding, actionResult,
          storeCalls, view>>

deferredVars == <<route, pc, awaiting, entry, triggers, bundle, thrown, renderer,
                  observed, display, registered, updates, raised, late, firstSettled>>

todoVars == <<todos, navigation, location, fetcher, isAdding, actionResult,
              storeCalls, view>>

loaderVars == <<pc, awaiting, bundle, thrown>>

pageVars == <<renderer, observed, display, registered, updates, raised>>

Init ==
    /\ route \in Routes
    /\ pc = [l \in Loaders |-> "idle"]
    /\ awaiting = [l \in Loaders |-> 0]
    /\ entry = [f \in Fields |-> Unstarted]
    /\ triggers = [f \in Fields |-> 0]
    /\ bundle = [l \in Loaders |-> NoBundle]
    /\ thrown = [l \in Loaders |-> NoValue]
    /\ renderer = "none"
    /\ observed = [f \in Fields |-> Unstarted]
    /\ display = [f \in Fields |-> NotShown]
    /\ registered = [f \in Fields |-> FALSE]
    /\ updates = [f \in Fields |-> 0]
    /\ raised = {}
    /\ late = {}
    /\ firstSettled = NoValue
    /\ todos = {}
    /\ navigation = Idle
    /\ location = NoValue
    /\ fetcher = [id \in TodoIds |-> "idle"]
    /\ isAdding = FALSE
    /\ actionResult = NoResult
    /\ storeCalls = <<>>
    /\ view = TodosList("none", NoValue)

----------------------------------------------------------------------------
(* Loaders *)

\* The loader as if the lazy promises were created before the first await.
CallEager(l) ==
    /\ l \in Matched(route)
    /\ pc[l] = "idle"
    /\ pc' = [pc EXCEPT ![l] = "awaiting"]
    /\ awaiting' = [awaiting EXCEPT ![l] = 1]
    /\ entry' = [f \in Fields |->
          IF f = CriticalFields(l)[1] THEN Pending
          ELSE IF f \in LazyFields(l) THEN NewPromise(f)
          ELSE entry[f]]
    /\ triggers' = [f \in Fields |->
          IF f = CriticalFields(l)[1] \/ f \in LazyFields(l)
          THEN triggers[f] + 1
          ELSE triggers[f]]
    /\ UNCHANGED <<todoVars, route, bundle, thrown, late, firstSettled>>
    /\ UNCHANGED pageVars

\* The router calls the loader of a matched route; the loader runs up to its
\* first await: it creates the promise of the first critical field and suspends.
Call(l) ==
    /\ l \in Matched(route)
    /\ pc[l] = "idle"
    /\ pc' = [pc EXCEPT ![l] = "awaiting"]
    /\ awaiting' = [awaiting EXCEPT ![l] = 1]
    /\ entry' = [entry EXCEPT ![CriticalFields(l)[1]] = Pending]
    /\ triggers' = [triggers EXCEPT ![CriticalFields(l)[1]] = @ + 1]
    /\ UNCHANGED <<todoVars, route, bundle, thrown, late, firstSettled>>
    /\ UNCHANGED pageVars

\* The lazy promises of a loader as if they shared one rejection: a rejection
\* fails every lazy promise that is still pending.
SettleShared(f) ==
    /\ entry[f].status = "pending"
    /\ \E o \in Outcomes(f) :
          entry' = [g \in Fields |->
              IF g = f THEN Settlement(f, o)
              ELSE IF /\ o = "reject" /\ f \in AllLazy /\ g \in AllLazy
                      /\ entry[g].status = "pending"
                   THEN Settlement(g, o)
                   ELSE entry[g]]
    /\ late' = IF renderer = "discarded" /\ f \in AllLazy THEN late \cup {f} ELSE late
    /\ firstSettled' = IF f \in AllLazy /\ firstSettled = NoValue THEN f ELSE firstSettled
    /\ UNCHANGED <<todoVars, route, triggers>>
    /\ UNCHANGED loaderVars
    /\ UNCHANGED pageVars

\* A result cell that can be written again after it was settled.
SettleAgain(f) ==
    /\ entry[f].status \in {"pending", "settled", "failed"}
    /\ \E o \in {"resolve", "reject"} : entry' = [entry EXCEPT ![f] = Settlement(f, o)]
    /\ late' = IF renderer = "discarded" /\ f \in AllLazy THEN late \cup {f} ELSE late
    /\ firstSettled' = IF f \in AllLazy /\ firstSettled = NoValue THEN f ELSE firstSettled
    /\ UNCHANGED <<todoVars, route, triggers>>
    /\ UNCHANGED loaderVars
    /\ UNCHANGED pageVars

\* Timers as if they were cleared when the page is discarded.
SettleUnlessDiscarded(f) ==
    /\ entry[f].status = "pending"
    /\ renderer # "discarded"
    /\ \E o \in Outcomes(f) : entry' = [entry EXCEPT ![f] = Settlement(f, o)]
    /\ late' = late
    /\ firstSettled' = IF f \in AllLazy /\ firstSettled = NoValue THEN f ELSE firstSettled
    /\ UNCHANGED <<todoVars, route, triggers>>
    /\ UNCHANGED loaderVars
    /\ UNCHANGED pageVars

\* A timer fires and its executor settles the promise.
Settle(f) ==
    /\ entry[f].status = "pending"
    /\ \E o \in Outcomes(f) : entry' = [entry EXCEPT ![f] = Settlement(f, o)]
    /\ late' = IF renderer = "discarded" /\ f \in AllLazy THEN late \cup {f} ELSE late
    /\ firstSettled' = IF f \in AllLazy /\ firstSettled = NoValue THEN f ELSE firstSettled
    /\ UNCHANGED <<todoVars, route, triggers>>
    /\ UNCHANGED loaderVars
    /\ UNCHANGED pageVars

\* The awaited promise fulfilled and another critical field follows: the
\* loader creates its promise and suspends again.
ResumeNext(l) ==
    /\ pc[l] = "awaiting"
    /\ entry[CriticalFields(l)[awaiting[l]]].status = "settled"
    /\ awaiting[l] < Len(CriticalFields(l))
    /\ awaiting' = [awaiting EXCEPT ![l] = @ + 1]
    /\ entry' = [entry EXCEPT ![CriticalFields(l)[awaiting[l] + 1]] = Pending]
    /\ triggers' = [triggers EXCEPT ![CriticalFields(l)[awaiting[l] + 1]] = @ + 1]
    /\ UNCHANGED <<todoVars, route, pc, bundle, thrown, late, firstSettled>>
    /\ UNCHANGED pageVars

\* The loader as if it caught the rejection and went on to return a bundle.
ResumeSwallow(l) ==
    /\ pc[l] = "awaiting"
    /\ entry[CriticalFields(l)[awaiting[l]]].status = "failed"
    /\ pc' = [pc EXCEPT ![l] = "returned"]
    /\ bundle' = [bundle EXCEPT ![l] =
                    [produced |-> TRUE,
                     critical |-> {<<f, entry[f].value>> : f \in CriticalSet(l)},
                     lazy |-> LazyFields(l)]]
    /\ entry' = [f \in Fields |-> IF f \in LazyFields(l) THEN NewPromise(f) ELSE entry[f]]
    /\ triggers' = [f \in Fields |-> IF f \in LazyFields(l) THEN triggers[f] + 1 ELSE triggers[f]]
    /\ UNCHANGED <<todoVars, route, awaiting, thrown, late, firstSettled>>
    /\ UNCHANGED pageVars

\* The awaited promise rejected: await throws and the loader call rejects
\* with the reason; deferred() is never called.
ResumeThrow(l) ==
    /\ pc[l] = "awaiting"
    /\ entry[CriticalFields(l)[awaiting[l]]].status = "failed"
    /\ pc' = [pc EXCEPT ![l] = "threw"]
    /\ thrown' = [thrown EXCEPT ![l] = entry[CriticalFields(l)[awaiting[l]]].value]
    /\ UNCHANGED <<todoVars, route, awaiting, entry, triggers, bundle, late, firstSettled>>
    /\ UNCHANGED pageVars

\* The loader as if only its first critical field were awaited.
ResumeReturnEarly(l) ==
    /\ pc[l] = "awaiting"
    /\ entry[CriticalFields(l)[awaiting[l]]].status = "settled"
    /\ entry' = [f \in Fields |-> IF f \in LazyFields(l) THEN NewPromise(f) ELSE entry[f]]
    /\ triggers' = [f \in Fields |-> IF f \in LazyFields(l) THEN triggers[f] + 1 ELSE triggers[f]]
    /\ bundle' = [bundle EXCEPT ![l] =
                    [produced |-> TRUE,
                     critical |-> {<<f, entry[f].value>> : f \in CriticalSet(l)},
                     lazy |-> LazyFields(l)]]
    /\ pc' = [pc EXCEPT ![l] = "returned"]
    /\ UNCHANGED <<todoVars, route, awaiting, thrown, late, firstSettled>>
    /\ UNCHANGED pageVars

\* The last awaited promise fulfilled: the loader creates the lazy promises,
\* passes the object to deferred() and returns its result.
ResumeReturn(l) ==
    /\ pc[l] = "awaiting"
    /\ entry[CriticalFields(l)[awaiting[l]]].status = "settled"
    /\ awaiting[l] = Len(CriticalFields(l))
    /\ entry' = [f \in Fields |-> IF f \in LazyFields(l) THEN NewPromise(f) ELSE entry[f]]
    /\ triggers' = [f \in Fields |-> IF f \in LazyFields(l) THEN triggers[f] + 1 ELSE triggers[f]]
    /\ bundle' = [bundle EXCEPT ![l] =
                    [produced |-> TRUE,
                     critical |-> {<<f, entry[f].value>> : f \in CriticalSet(l)},
                     lazy |-> LazyFields(l)]]
    /\ pc' = [pc EXCEPT ![l] = "returned"]
    /\ UNCHANGED <<todoVars, route, awaiting, thrown, late, firstSettled>>
    /\ UNCHANGED pageVars

----------------------------------------------------------------------------
(* Pages *)

BundleValue(l, f) == CHOOSE v \in {p[2] : p \in {q \in bundle[l].critical : q[1] = f}} : TRUE

Shown(s) ==
    /\ LoaderOf(s) \in Matched(route)
    /\ s \in PageCritical(LoaderOf(s)) \cup PageDeferred(LoaderOf(s))

\* The matched pages rendered from the bundles and the entries as observed.
PageDisplay(obs) ==
    [s \in Fields |->
        IF ~Shown(s) THEN NotShown
        ELSE IF s \in PageCritical(LoaderOf(s))
             THEN CriticalElement(BundleValue(LoaderOf(s), Data(s)))
             ELSE DeferredElement(s, obs[Data(s)])]

\* The entries some <Deferred> element of a matched page is given.
Watched ==
    {Data(s) : s \in {t \in Fields : Shown(t) /\ t \in PageDeferred(LoaderOf(t))}}

\* The page as if rendering it created the lazy promises.
RenderTriggering ==
    /\ renderer = "none"
    /\ \A l \in Matched(route) : pc[l] = "returned"
    /\ renderer' = "live"
    /\ entry' = [f \in Fields |-> IF f \in Watched THEN NewPromise(f) ELSE entry[f]]
    /\ triggers' = [f \in Fields |-> IF f \in Watched THEN triggers[f] + 1 ELSE triggers[f]]
    /\ observed' = [f \in Fields |-> IF f \in Watched THEN entry'[f] ELSE Unstarted]
    /\ display' = PageDisplay(observed')
    /\ registered' = [f \in Fields |-> f \in Watched /\ entry'[f].status = "pending"]
    /\ UNCHANGED <<todoVars, route, updates, raised, late, firstSettled>>
    /\ UNCHANGED loaderVars

\* The first render of the matched pages, once every matched loader has
\* returned its bundle.  A lazy entry that is still pending shows its fallback
\* and gets a continuation; one that has settled shows its result at once.
Render ==
    /\ renderer = "none"
    /\ \A l \in Matched(route) : pc[l] = "returned"
    /\ renderer' = "live"
    /\ observed' = [f \in Fields |-> IF f \in Watched THEN entry[f] ELSE Unstarted]
    /\ display' = PageDisplay(observed')
    /\ registered' = [f \in Fields |-> f \in Watched /\ entry[f].status = "pending"]
    /\ UNCHANGED <<todoVars, route, entry, triggers, updates, raised, late, firstSettled>>
    /\ UNCHANGED loaderVars

\* A continuation that stays registered after it has fired.
NotifyRepeating(f) ==
    /\ registered[f]
    /\ entry[f].status # "pending"
    /\ renderer = "live"
    /\ observed' = [observed EXCEPT ![f] = entry[f]]
    /\ display' = PageDisplay(observed')
    /\ updates' = [updates EXCEPT ![f] = @ + 1]
    /\ UNCHANGED <<todoVars, route, entry, triggers, renderer, registered, raised, late, firstSettled>>
    /\ UNCHANGED loaderVars

\* The continuation of a settled entry fires: the page sees the result and
\* re-renders.  Acting on a discarded page raises.
Notify(f) ==
    /\ registered[f]
    /\ entry[f].status # "pending"
    /\ registered' = [registered EXCEPT ![f] = FALSE]
    /\ IF renderer = "live"
       THEN /\ observed' = [observed EXCEPT ![f] = entry[f]]
            /\ display' = PageDisplay(observed')
            /\ updates' = [updates EXCEPT ![f] = @ + 1]
            /\ UNCHANGED raised
       ELSE /\ raised' = raised \cup {f}
            /\ UNCHANGED <<observed, display, updates>>
    /\ UNCHANGED <<todoVars, route, entry, triggers, renderer, late, firstSettled>>
    /\ UNCHANGED loaderVars

\* An unmount that leaves the continuations registered.
DiscardKeepContinuations ==
    /\ renderer = "live"
    /\ renderer' = "discarded"
    /\ UNCHANGED <<todoVars, route, entry, triggers, observed, display, registered, updates,
                   raised, late, firstSettled>>
    /\ UNCHANGED loaderVars

\* The pages are unmounted: every continuation is deregistered.
Discard ==
    /\ renderer = "live"
    /\ renderer' = "discarded"
    /\ registered' = [f \in Fields |-> FALSE]
    /\ UNCHANGED <<todoVars, route, entry, triggers, observed, display, updates, raised, late, firstSettled>>
    /\ UNCHANGED loaderVars

Next ==
    \/ \E l \in Loaders : Call(l)
    \/ \E f \in Fields : Settle(f)
    \/ \E l \in Loaders : ResumeNext(l)
    \/ \E l \in Loaders : ResumeThrow(l)
    \/ \E l \in Loaders : ResumeReturn(l)
    \/ Render
    \/ \E f \in Fields : Notify(f)
    \/ Discard

Spec == Init /\ [][Next]_vars

\* Continuations run once their entry has settled.
FairSpec == Spec /\ \A f \in Fields : WF_vars(Notify(f))

\* Timers fire.
TimerFairSpec == Spec /\ \A f \in Fields : WF_vars(Settle(f))

----------------------------------------------------------------------------
(* The todos routes *)

\* The router calls todosAction with the submitted form: the store after its
\* calls, the calls, and the returned value.
Handle(fd) ==
    /\ \E fresh \in TodoIds :
        /\ (\E i \in 1..Len(TodosAction(fd).calls) :
                TodosAction(fd).calls[i].fn = "addTodo") => fresh \notin IdsOf(todos)
        /\ todos' = ApplyCalls(todos, TodosAction(fd).calls, fresh)
    /\ storeCalls' = TodosAction(fd).calls
    /\ actionResult' = TodosAction(fd).result

\* A form is posted to the todos route: the <Form> of TodosList, or any other
\* submission.
Submit(fd) ==
    /\ navigation.state = "idle"
    /\ view.element = "TodosList"
    /\ IsString(fd.todo) => Cardinality(todos) < MaxTodos
    /\ navigation' = [state |-> "submitting", submitted |-> TRUE,
                      formData |-> fd, id |-> NoValue]
    /\ isAdding' = Effect(navigation', isAdding)
    /\ UNCHANGED <<todos, location, fetcher, actionResult, storeCalls, view>>
    /\ UNCHANGED deferredVars

\* todosAction returns for the submitting navigation; the loaders follow.
NavActionDone ==
    /\ navigation.state = "submitting"
    /\ Handle(navigation.formData)
    /\ navigation' = [navigation EXCEPT !.state = "loading"]
    /\ isAdding' = Effect(navigation', isAdding)
    /\ UNCHANGED <<location, fetcher, view>>
    /\ UNCHANGED deferredVars

\* <Link to="/todos">, <Link to={`/todos/${id}`}>, <Link to="/todos/junk">.
ClickLink(id) ==
    /\ navigation.state \in {"idle", "loading"}
    /\ navigation' = [state |-> "loading", submitted |-> FALSE,
                      formData |-> NoForm, id |-> id]
    /\ isAdding' = Effect(navigation', isAdding)
    /\ UNCHANGED <<todos, location, fetcher, actionResult, storeCalls, view>>
    /\ UNCHANGED deferredVars

\* The loaders of the navigation have run: the location is committed and the
\* todos route renders.
NavLoadersDone ==
    /\ navigation.state = "loading"
    /\ location' = navigation.id
    /\ view' = ViewFor(navigation.id, todos)
    /\ navigation' = Idle
    /\ isAdding' = Effect(navigation', isAdding)
    /\ UNCHANGED <<todos, fetcher, actionResult, storeCalls>>
    /\ UNCHANGED deferredVars

\* The Delete button of the TodoItem of id.
FetcherSubmit(id) ==
    /\ fetcher[id] = "idle"
    /\ id \in IdsOf(todos)
    /\ view.element = "TodosList"
    /\ fetcher' = [fetcher EXCEPT ![id] = "submitting"]
    /\ UNCHANGED <<todos, navigation, location, isAdding, actionResult, storeCalls, view>>
    /\ UNCHANGED deferredVars

\* todosAction returns for the fetcher of id; its revalidation follows.
FetcherActionDone(id) ==
    /\ fetcher[id] = "submitting"
    /\ Handle(DeleteForm(id))
    /\ fetcher' = [fetcher EXCEPT ![id] = "loading"]
    /\ UNCHANGED <<navigation, location, isAdding, view>>
    /\ UNCHANGED deferredVars

\* The revalidation of the fetcher of id has run the loaders of the committed
\* location again.
FetcherRevalidated(id) ==
    /\ fetcher[id] = "loading"
    /\ fetcher' = [fetcher EXCEPT ![id] = "idle"]
    /\ view' = ViewFor(location, todos)
    /\ UNCHANGED <<todos, navigation, location, isAdding, actionResult, storeCalls>>
    /\ UNCHANGED deferredVars

TodosNext ==
    \/ \E fd \in FormDatas : Submit(fd)
    \/ NavActionDone
    \/ \E id \in TodoIds \cup {JunkId, NoValue} : ClickLink(id)
    \/ NavLoadersDone
    \/ \E id \in TodoIds : FetcherSubmit(id)
    \/ \E id \in TodoIds : FetcherActionDone(id)
    \/ \E id \in TodoIds : FetcherRevalidated(id)

\* The todos routes on their own.
TodosSpec == Init /\ [][TodosNext]_vars

----------------------------------------------------------------------------
TypeOK ==
    /\ route \in Routes
    /\ \A l \in Loaders : pc[l] \in {"idle", "awaiting", "returned", "threw"}
    /\ \A f \in Fields : entry[f].status \in {"unstarted", "pending", "settled", "failed"}
    /\ renderer \in {"none", "live", "discarded"}
    /\ \A f \in Fields : display[f].state \in {"NotShown", "Value", "Placeholder", "Resolved", "Errored"}
    /\ todos \subseteq TodoIds \X Texts
    /\ \A p, q \in todos : p[1] = q[1] => p = q
    /\ navigation.state \in {"idle", "submitting", "loading"}
    /\ navigation.formData \in FormDatas
    /\ location \in TodoIds \cup {JunkId, NoValue}
    /\ fetcher \in [TodoIds -> {"idle", "submitting", "loading"}]
    /\ isAdding \in BOOLEAN
    /\ actionResult \in {NoResult, ActionOk, Redirect}
    /\ view.element \in {"TodosList", "TodosBoundary"}

----------------------------------------------------------------------------
(* Properties *)

MatchedLazy == UNION {LazyFields(l) : l \in Matched(route)}

Terminal == {"Resolved", "Errored"}

\* C1: the display of a lazy field changes at most once, from Placeholder to
\* Resolved or to Errored; a Resolved or Errored display never changes again.
C1_DisplayChangesOnce ==
    [][\A f \in AllLazy :
          /\ display[f].state \in Terminal => display'[f] = display[f]
          /\ display[f].state = "Placeholder" =>
                display'[f].state \in {"Placeholder"} \cup Terminal
          /\ updates'[f] <= 1]_vars

\* Both terminal transitions have happened while a sibling has settled and
\* its continuation has not fired yet.
C1_Witness ==
    /\ renderer = "live"
    /\ updates["lazy1"] = 1 /\ display["lazy1"].state = "Resolved"
    /\ updates["lazyError1"] = 1 /\ display["lazyError1"].state = "Errored"
    /\ entry["lazy2"].status = "settled" /\ display["lazy2"].state = "Placeholder"

\* C2: a lazy field that settles after the page was discarded gets no display
\* update, and its late settlement raises no error.
C2_LateSettlementIsSilent ==
    /\ raised = {}
    /\ \A f \in late :
          /\ display[f].state = "Placeholder"
          /\ updates[f] = 0
          /\ ~registered[f]

\* The page was discarded with lazy1 and lazyError1 pending and both settled
\* afterwards, one to a value and one to an error.
C2_Witness ==
    /\ renderer = "discarded"
    /\ {"lazy1", "lazyError1"} \subseteq late
    /\ entry["lazy1"].status = "settled"
    /\ entry["lazyError1"].status = "failed"

\* C3: a failed critical computation makes the loader call fail with the
\* cause, no bundle is produced, and nothing is ever displayed or updated.
C3_CriticalFailureAborts ==
    \A l \in Loaders : \A f \in CriticalSet(l) :
        entry[f].status = "failed" =>
            /\ pc[l] \in {"awaiting", "threw"}
            /\ bundle[l] = NoBundle
            /\ pc[l] = "threw" => thrown[l] = entry[f].value
            /\ renderer = "none"
            /\ \A g \in Fields : display[g] = NotShown /\ updates[g] = 0

\* The child loader failed on its critical field after the parent loader had
\* returned its bundle, and lazy computations of the parent settled later.
C3_Witness ==
    /\ pc["deferredChildLoader"] = "threw"
    /\ thrown["deferredChildLoader"] = "rejected critical"
    /\ bundle["deferredLoader"].produced
    /\ entry["lazy1"].status = "settled"
    /\ entry["lazyError1"].status = "failed"

\* C4: a failed lazy computation leaves the loader call successful and the
\* bundle produced; only entries whose own computation rejects are failed,
\* and only their fields are displayed as Errored.
C4_LazyFailureIsLocal ==
    /\ \A l \in Loaders : \A f \in LazyFields(l) :
          entry[f].status = "failed" =>
              /\ pc[l] = "returned"
              /\ bundle[l].produced
              /\ thrown[l] = NoValue
              /\ f \in {"lazyError1", "lazyError2"}
    /\ \A g \in Fields :
          display[g].state = "Errored" =>
              g \in {"lazyError1", "lazyError2"} /\ entry[g].status = "failed"

\* lazyError1 and lazyError2 are displayed as errors and the other six
\* fields of the page are displayed normally.
C4_Witness ==
    /\ renderer = "live"
    /\ display["lazyError1"].state = "Errored"
    /\ display["lazyError2"].state = "Errored"
    /\ display["critical1"].state = "Value"
    /\ display["critical2"].state = "Value"
    /\ \A f \in {"lazyResolved", "lazy1", "lazy2", "lazy3"} : display[f].state = "Resolved"

\* The matched pages are live and every lazy entry has settled and has been
\* seen by the page.
Final ==
    /\ renderer = "live"
    /\ \A f \in MatchedLazy : entry[f].status # "pending" /\ ~registered[f]

\* C5: whatever the order of settlement, the final display of every lazy
\* field is the one its own outcome fixes.
C5_OrderIndependence ==
    Final =>
        \A f \in MatchedLazy :
            IF f \in {"lazyError1", "lazyError2"}
            THEN display[f].state = "Errored" /\ display[f].text = "Kaboom!"
            ELSE display[f].state = "Resolved" /\ display[f].text = ValueOf(f)

\* A final state reached with lazy2 settling before lazy1 and every other
\* lazy timer.
C5_Witness ==
    /\ Final
    /\ firstSettled = "lazy2"
    /\ display["lazy1"].text = "Lazy Data 1"
    /\ display["lazy2"].text = "Lazy Data 2"

BundleNames(l) == {p[1] : p \in bundle[l].critical} \cup bundle[l].lazy

ShownSlots == {s \in Fields : display[s].state # "NotShown"}

DisplayedFields == {Data(s) : s \in ShownSlots}

C7_CriticalValuesAndPlaceholders ==
    renderer = "live" =>
        /\ \A l \in Matched(route) : \A f \in CriticalSet(l) :
              /\ display[f].state = "Value"
              /\ display[f].text = ValueOf(f)
        /\ \A f \in MatchedLazy :
              entry[f].status = "pending" =>
                  /\ display[f].state = "Placeholder"
                  /\ display[f].by = "fallback"

\* The first display state: the critical values are shown and every lazy
\* timer is still pending behind its fallback.
C7_Witness ==
    /\ renderer = "live"
    /\ display["critical1"].text = "Critical Data 1"
    /\ display["critical2"].text = "Critical Data 2"
    /\ \A f \in {"lazy1", "lazy2", "lazy3", "lazyError1", "lazyError2"} :
          entry[f].status = "pending" /\ display[f].state = "Placeholder"
    /\ display["lazy1"].text = "loading 1..."

\* C8: a display step of the live page changes the region of one lazy field
\* only, straight from its placeholder to its terminal state.
C8_SettlementChangesOneRegion ==
    [][(renderer = "live" /\ renderer' = "live") =>
          \A f \in Fields :
              display'[f] # display[f] =>
                  /\ f \in AllLazy
                  /\ display[f].state = "Placeholder"
                  /\ display'[f].state \in Terminal
                  /\ \A g \in Fields \ {f} : display'[g] = display[g]]_vars

\* A value and an error have been swapped in while siblings keep their
\* placeholders.
C8_Witness ==
    /\ renderer = "live"
    /\ updates["lazy2"] = 1 /\ display["lazy2"].state = "Resolved"
    /\ updates["lazyError2"] = 1 /\ display["lazyError2"].state = "Errored"
    /\ display["lazy1"].state = "Placeholder"
    /\ display["lazyError1"].state = "Placeholder"

ErrorRenderers == {"RenderDeferredError", "RenderDeferredData.isDeferredError"}

\* C9: a failed field is shown by its errorBoundary when it has one
\* (lazyError2) and by the isDeferredError branch of RenderDeferredData
\* otherwise; a field that settled to a value uses neither.
C9_ErrorRendererSelection ==
    \A f \in AllLazy :
        /\ display[f].state = "Errored" =>
              /\ entry[f].status = "failed"
              /\ display[f].text = entry[f].value
              /\ display[f].by = IF f = "lazyError2"
                                 THEN "RenderDeferredError"
                                 ELSE "RenderDeferredData.isDeferredError"
        /\ (renderer = "live" /\ observed[f].status = "failed") =>
              display[f].state = "Errored"
        /\ entry[f].status = "settled" => display[f].by \notin ErrorRenderers

\* Both failed fields are shown, each by its own error renderer, beside a
\* resolved field.
C9_Witness ==
    /\ renderer = "live"
    /\ display["lazyError1"].by = "RenderDeferredData.isDeferredError"
    /\ display["lazyError2"].by = "RenderDeferredError"
    /\ display["lazy1"].by = "RenderDeferredData"

\* C10: a bundle exists only with every critical field of its loader
\* resolved, and at the step that returns it every lazy promise made by a
\* timer is still pending.
C10_ReturnAfterCriticalBeforeLazy ==
    /\ [](\A l \in Loaders :
             bundle[l].produced =>
                 \A f \in CriticalSet(l) :
                     /\ entry[f].status = "settled"
                     /\ <<f, ValueOf(f)>> \in bundle[l].critical)
    /\ [][\A l \in Loaders :
             (~bundle[l].produced /\ bundle'[l].produced) =>
                 \A f \in LazyFields(l) :
                     ~Immediate(f) => entry'[f].status = "pending"]_vars

\* Both bundles have been returned and rendered while every lazy timer is
\* still pending.
C10_Witness ==
    /\ bundle["deferredLoader"].produced
    /\ bundle["deferredChildLoader"].produced
    /\ renderer = "live"
    /\ \A f \in {"lazy1", "lazy2", "lazy3", "lazyError1", "lazyError2", "lazy"} :
          entry[f].status = "pending"

Settled == {"settled", "failed"}

\* One step of an entry: it stays as it is, is created pending (or already
\* fulfilled), or goes from pending to settled or failed; a settled or failed
\* entry never changes.
EntryStepsOnce ==
    \A f \in Fields :
        \/ entry'[f] = entry[f]
        \/ entry[f].status = "unstarted" /\ entry'[f] = NewPromise(f)
        \/ entry[f].status = "pending" /\ entry'[f].status \in Settled

\* No entry stays pending: an entry leaves pending only by settling.
EntriesSettle ==
    []<>(\A f \in Fields : entry[f].status # "pending")

\* C11 as stated: every entry makes exactly one terminal transition, and no
\* entry changes once the page that observes it has been discarded.
C11_NoTransitionAfterCancellation ==
    /\ [][EntryStepsOnce]_vars
    /\ EntriesSettle
    /\ [][renderer = "discarded" => entry' = entry]_vars

\* C11: every entry makes exactly one terminal transition, from pending to
\* settled or to failed; discarding the page does not stop it.
C11_OneTerminalTransition ==
    /\ [][EntryStepsOnce]_vars
    /\ EntriesSettle

\* After the discard lazy2 made its one transition and lazy3 is still to
\* make it.
C11_Witness ==
    /\ renderer = "discarded"
    /\ "lazy2" \in late
    /\ entry["lazy2"] = Settlement("lazy2", "resolve")
    /\ "lazyError2" \in late
    /\ entry["lazy3"].status = "pending"

\* C12: a step of the page (first render, display update, discard) changes
\* no entry; after the discard a pending entry is still pending and able to
\* settle, and what settled late settled to its own outcome.
C12_PageOnlyObserves ==
    /\ [](renderer = "discarded" =>
             /\ \A f \in Fields : entry[f].status = "pending" => ENABLED Settle(f)
             /\ \A f \in late : \E o \in Outcomes(f) : entry[f] = Settlement(f, o))
    /\ [][pageVars' # pageVars => entry' = entry /\ triggers' = triggers]_vars

\* The page was discarded with a settled entry it had shown, a settled entry
\* it had not shown yet and pending entries; one of those settled afterwards.
C12_Witness ==
    /\ renderer = "discarded"
    /\ display["lazy1"].state = "Resolved"
    /\ entry["lazy2"].status = "settled" /\ "lazy2" \notin late
    /\ display["lazy2"].state = "Placeholder"
    /\ "lazyError1" \in late
    /\ entry["lazy3"].status = "pending"

\* C13: the computation of a lazy field is started once, at the step of the
\* loader that returns the bundle; no step of the page starts one.
C13_TriggeredOnceAtConstruction ==
    /\ [](\A f \in Fields : triggers[f] <= 1)
    /\ [][\A f \in AllLazy :
             triggers'[f] # triggers[f] =>
                 /\ ~bundle[LoaderOf(f)].produced
                 /\ bundle'[LoaderOf(f)].produced
                 /\ pageVars' = pageVars]_vars

\* The page has re-rendered for two sibling settlements and every lazy
\* computation has still been started exactly once.
C13_Witness ==
    /\ renderer = "live"
    /\ updates["lazy1"] = 1
    /\ updates["lazy2"] = 1
    /\ \A f \in LazyFields("deferredLoader") : triggers[f] = 1
    /\ entry["lazy3"].status = "pending"

\* Every settled entry of the live page shows the terminal state of its own
\* outcome.
UpToDate ==
    \A f \in MatchedLazy :
        /\ entry[f].status = "settled" => display[f].state = "Resolved"
        /\ entry[f].status = "failed" => display[f].state = "Errored"

\* C14: unless the page is discarded, it always comes to show every lazy
\* field that has settled in the terminal state of its own outcome, whether
\* or not the other lazy fields ever settle.
C14_SettledFieldGetsDisplayed ==
    []<>(renderer = "live" => UpToDate)

\* lazy3 and lazyError2 show their results while lazy1, lazy2 and lazyError1
\* are still pending.
C14_Witness ==
    /\ renderer = "live"
    /\ display["lazy3"].state = "Resolved"
    /\ display["lazyError2"].state = "Errored"
    /\ \A f \in {"lazy1", "lazy2", "lazyError1"} : entry[f].status = "pending"

\* C15: lazyResolved is never shown as its fallback; whenever the page has
\* been rendered it shows the resolved value, without any later update.
C15_ResolvedNeverShowsFallback ==
    /\ display["lazyResolved"].state # "Placeholder"
    /\ display["lazyResolved"].text # "should not see me!"
    /\ updates["lazyResolved"] = 0
    /\ renderer # "none" =>
          /\ display["lazyResolved"].state = "Resolved"
          /\ display["lazyResolved"].text = "Lazy Data immediately resolved"

\* The first display state: lazyResolved shows its value beside the fallbacks
\* of the timer-driven fields.
C15_Witness ==
    /\ renderer = "live"
    /\ display["lazyResolved"].state = "Resolved"
    /\ \A f \in {"lazy1", "lazy2", "lazy3", "lazyError1", "lazyError2"} :
          display[f].state = "Placeholder" /\ updates[f] = 0

\* C17: critical2 is started only after critical1 resolved, a lazy
\* computation only after every critical field of its loader resolved, and a
\* loader that threw has started no lazy computation.
C17_SequentialAwaits ==
    /\ entry["critical2"].status # "unstarted" => entry["critical1"].status = "settled"
    /\ \A l \in Loaders : \A f \in LazyFields(l) :
          (entry[f].status # "unstarted" \/ triggers[f] > 0) =>
              \A c \in CriticalSet(l) : entry[c].status = "settled"
    /\ \A l \in Loaders :
          pc[l] = "threw" =>
              \A f \in LazyFields(l) : entry[f] = Unstarted /\ triggers[f] = 0

\* critical1 resolved, critical2 failed, and no lazy computation of
\* deferredLoader was started.
C17_Witness ==
    /\ pc["deferredLoader"] = "threw"
    /\ entry["critical1"].status = "settled"
    /\ entry["critical2"].status = "failed"
    /\ \A f \in LazyFields("deferredLoader") : triggers[f] = 0

\* The step in which todosAction returns for the submission fd.
Handled(fd) ==
    \/ /\ navigation.state = "submitting"
       /\ navigation'.state = "loading"
       /\ fd = navigation.formData
    \/ \E id \in TodoIds :
        /\ fetcher[id] = "submitting"
        /\ fetcher'[id] = "loading"
        /\ fd = DeleteForm(id)

\* The arguments of the calls of fn among calls.
ArgsOf(calls, fn) == {calls[i].arg : i \in {j \in 1..Len(calls) : calls[j].fn = fn}}

\* C18: todosAction handles a submission with action = "delete" and a string
\* todoId by one call of deleteTodo on that id, no addTodo, and the value
\* {ok: true}, which is no redirect; every other submission by no deleteTodo,
\* one addTodo of the "todo" field iff that field is a string, and a 302
\* redirect to /todos.
C18_TodosActionTwoWays ==
    [][\A fd \in FormDatas :
          Handled(fd) =>
              IF fd.action = Str("delete") /\ fd.todoId.type = "string"
              THEN /\ storeCalls' = <<StoreCall("deleteTodo", fd.todoId.v)>>
                   /\ ArgsOf(storeCalls', "addTodo") = {}
                   /\ actionResult'.kind = "data"
                   /\ actionResult'.ok
                   /\ actionResult'.status # 302
              ELSE /\ ArgsOf(storeCalls', "deleteTodo") = {}
                   /\ IF fd.todo.type = "string"
                      THEN storeCalls' = <<StoreCall("addTodo", fd.todo.v)>>
                      ELSE storeCalls' = <<>>
                   /\ actionResult'.kind = "response"
                   /\ actionResult'.status = 302
                   /\ actionResult'.location = "/todos"
      ]_vars

\* A submission with action = "delete", no todoId and a todo text was handled
\* as an addition: the store holds the todo and the redirect was returned.
C18_Witness ==
    /\ navigation.state = "loading"
    /\ navigation.formData.action = Str("delete")
    /\ navigation.formData.todoId = Absent
    /\ navigation.formData.todo = Str("milk")
    /\ storeCalls = <<StoreCall("addTodo", "milk")>>
    /\ actionResult = Redirect
    /\ \E p \in todos : p[2] = "milk"

\* The step in which the loaders of the todos routes have run.
Loaded ==
    \/ navigation.state = "loading" /\ navigation'.state = "idle"
    \/ \E id \in TodoIds : fetcher[id] = "loading" /\ fetcher'[id] = "idle"

\* C19: todoLoader returns a value only for an id that is present and names a
\* todo of the store, and that value is the todo; for a missing id and for an
\* id that names no todo of the store it throws; after the loaders ran for a
\* location whose id names no todo, TodosBoundary is shown with the error and
\* the Todo element is not rendered.
C19_TodoLoaderFailsToBoundary ==
    /\ [](\A id \in TodoIds \cup {JunkId, NoValue} :
            /\ ~TodoLoader(id, todos).threw =>
                  id # NoValue /\ <<id, TodoLoader(id, todos).value>> \in todos
            /\ (id = NoValue \/ id \notin IdsOf(todos)) =>
                  TodoLoader(id, todos).threw)
    /\ [][Loaded =>
            /\ view'.outlet = "Todo" =>
                  location' # NoValue /\ <<location', view'.text>> \in todos
            /\ (location' # NoValue /\ location' \notin IdsOf(todos)) =>
                  /\ view'.element = "TodosBoundary"
                  /\ view'.outlet = "none"
                  /\ view'.about = location'
      ]_vars

\* The todo shown at /todos/<id> was deleted through its fetcher; the
\* revalidation ran todoLoader again and TodosBoundary replaced the page.
C19_Witness ==
    /\ location \in TodoIds
    /\ location \notin IdsOf(todos)
    /\ storeCalls = <<StoreCall("deleteTodo", location)>>
    /\ actionResult = ActionOk
    /\ fetcher[location] = "idle"
    /\ navigation.state = "idle"
    /\ view.element = "TodosBoundary"
    /\ view.outlet = "none"
    /\ view.about = location

====
